---- MODULE Spec2Model ----
(***************************************************************************)
(* Push/pull synchronisation router (src/src/server/routers/sync.ts).      *)
(*                                                                         *)
(* The record store is a set of task rows.  pushChanges runs inside one    *)
(* store transaction: it reads Date.now() once, looks every created task   *)
(* up, batch-inserts the genuinely new ones, and applies one update per    *)
(* entry of its update list.  pullChanges runs three separate queries and  *)
(* then reads Date.now() for the response timestamp.                       *)
(*                                                                         *)
(* An optional value (a key that may be missing, a nullable input) is the  *)
(* empty sequence when missing/null and a one-element sequence otherwise.  *)
(***************************************************************************)
EXTENDS Integers, Sequences, FiniteSets, TLC

VARIABLES
    db,      \* the committed rows of the task table
    clock,   \* the value Date.now() returns
    tx,      \* per request slot: the pushChanges call running or last run there
    pull,    \* the pullChanges call running or last run
    client,  \* what the pulling client holds: its watermark and what it was sent
    npush    \* number of pushChanges calls started

vars == <<db, clock, tx, pull, client, npush>>

-----------------------------------------------------------------------------
(* Bounds of the model *)

MaxClock == 3
MaxLen == 2
MaxPush == 2

None == << >>
Some(x) == <<x>>
IsSome(o) == Len(o) = 1
Val(o) == o[1]

TaskIds == {"t1", "t2"}
TxIds == {1, 2}

-----------------------------------------------------------------------------
(* Wire inputs (zTask, zDatabaseChanges) *)

OptChoices ==
    { [is_urgent |-> None,        comment |-> None],
      [is_urgent |-> Some(TRUE),  comment |-> Some("c1")],
      [is_urgent |-> Some(FALSE), comment |-> None],
      [is_urgent |-> None,        comment |-> Some("c2")] }

\* A task as it arrives on the wire.  The required fields are drawn together
\* from two versions of a task; the optional fields from OptChoices.
WireTask(id, v, o) ==
    [ id         |-> id,
      name       |-> IF v = 1 THEN "n1" ELSE "n2",
      icon       |-> IF v = 1 THEN "i1" ELSE "i2",
      is_done    |-> (v = 2),
      is_urgent  |-> o.is_urgent,
      comment    |-> o.comment,
      created_at |-> 10,
      updated_at |-> 10 + v ]

Both == [is_urgent |-> Some(TRUE), comment |-> Some("c1")]
Neither == [is_urgent |-> None, comment |-> None]

\* One task per id, as a client creates it.
zTaskOne == { WireTask(id, 1, Both) : id \in TaskIds }

\* The created tasks of the model: with the optional fields, and one without.
zTaskNew == zTaskOne \cup { WireTask("t1", 1, Neither) }

\* The updated tasks of the model: the second version of one task with every
\* choice of optional fields.
zTaskEdit == { WireTask("t1", 2, o) : o \in OptChoices }

\* The updated tasks of the longer lists: the second version of every task
\* without optional fields.
zTaskNext == { WireTask(id, 2, Neither) : id \in TaskIds }

\* An optional array as the loops see it: present or missing, an array
\* without entries is skipped either way.
Wrap(list) == IF Len(list) = 0 THEN None ELSE Some(list)

\* The guard of both loops: the list is present and not empty.
Entries(list) == IF IsSome(list) /\ Len(Val(list)) > 0 THEN Val(list) ELSE << >>

\* created, updated and deleted are optional arrays.  The change sets of the
\* model hold at most n tasks over created and updated together.
Changes(created, updated, n, deleted) ==
    UNION { UNION { { [created |-> Wrap(c), updated |-> Wrap(u), deleted |-> deleted] :
                        c \in [1..kc -> created], u \in [1..(k - kc) -> updated] } :
                    kc \in 0..k } :
            k \in 0..n }

\* The arrays present and empty.
EmptyChanges ==
    { [created |-> Some(<< >>), updated |-> None, deleted |-> None],
      [created |-> None, updated |-> Some(<< >>), deleted |-> Some(<< >>)] }

\* The change sets of the pushes: one task of any kind, longer lists over
\* zTaskOne and zTaskNext, a deleted list beside at most one created task.
ChangeSets ==
    Changes(zTaskNew, zTaskEdit, 1, None)
      \cup Changes(zTaskOne, zTaskNext, MaxLen, None)
      \cup Changes(zTaskOne, {}, 1, Some(<<"t1">>))
      \cup EmptyChanges

\* The change sets of the pushes that run beside the pulls of a client.
ChangeSetsOne == Changes(zTaskOne, zTaskOne, MaxLen, None)

\* The change sets that fill the store for the pulls: lists of created tasks
\* with distinct ids, or one updated task, or nothing but a deleted id.
ChangeSetsPull ==
    { c \in Changes(zTaskOne, {}, MaxLen, None) :
        \A i, j \in 1..Len(Entries(c.created)) :
          Entries(c.created)[i].id = Entries(c.created)[j].id => i = j }
      \cup Changes({}, zTaskNext, 1, None)
      \cup Changes({}, {}, 0, Some(<<"t1">>))

-----------------------------------------------------------------------------
(* The store *)

Ids(rows) == { r.id : r \in rows }

\* findUnique({where: {id}}): the row, or None.
FindUnique(store, id) ==
    IF \E r \in store : r.id = id
    THEN Some(CHOOSE r \in store : r.id = id)
    ELSE None

SeqToSet(s) == { s[i] : i \in 1..Len(s) }

\* The ids a batch insert is rejected for: an id twice in the batch, or an id
\* the table already holds (the primary key).
UniqueViolations(store, data) ==
    { data[i].id : i \in { k \in 1..Len(data) :
        \/ data[k].id \in Ids(store)
        \/ \E j \in 1..Len(data) : j # k /\ data[j].id = data[k].id } }

\* A row as createMany stores it: a missing optional column takes the
\* column's default, written None.
InsertedRow(d) ==
    [ id |-> d.id, name |-> d.name, icon |-> d.icon, isDone |-> d.isDone,
      isUrgent |-> d.isUrgent, comment |-> d.comment,
      createdAt |-> d.createdAt, updatedAt |-> d.updatedAt,
      serverCreatedAt |-> d.serverCreatedAt,
      serverUpdatedAt |-> d.serverUpdatedAt ]

CreateMany(store, data) == store \cup { InsertedRow(data[i]) : i \in 1..Len(data) }

-----------------------------------------------------------------------------
(* pushChanges: the pieces of the transaction body *)

\* Mutant: serverUpdatedAt comes from a clock read of its own.
CreateDataSecondRead(task, now) ==
    [ id |-> task.id, name |-> task.name, icon |-> task.icon,
      isDone |-> task.is_done, isUrgent |-> task.is_urgent,
      comment |-> task.comment,
      createdAt |-> task.created_at, updatedAt |-> task.updated_at,
      serverCreatedAt |-> now, serverUpdatedAt |-> clock ]

\* The entry pushed on createdTasks for a created task that is not in the
\* store.  A missing is_urgent or comment stays missing.
CreateData(task, now) ==
    [ id |-> task.id, name |-> task.name, icon |-> task.icon,
      isDone |-> task.is_done, isUrgent |-> task.is_urgent,
      comment |-> task.comment,
      createdAt |-> task.created_at, updatedAt |-> task.updated_at,
      serverCreatedAt |-> now, serverUpdatedAt |-> now ]

\* The entry pushed on updatedTasks for a created task that is already in the
\* store: the optional keys are spread in only when defined.
ReclassifiedPatch(task) ==
    [ id |-> task.id, name |-> task.name, icon |-> task.icon,
      isDone |-> task.is_done, isUrgent |-> task.is_urgent,
      comment |-> task.comment, updatedAt |-> task.updated_at ]

\* The entry pushed on updatedTasks for a task of the updated list.
UpdatedPatch(task) ==
    [ id |-> task.id, name |-> task.name, icon |-> task.icon,
      isDone |-> task.is_done, isUrgent |-> task.is_urgent,
      comment |-> task.comment, updatedAt |-> task.updated_at ]

\* Mutant: every created task is staged as a create, without the lookup.
ClassifyOneNoLookup(seen, acc, task, now) ==
    [acc EXCEPT !.createdTasks = Append(@, CreateData(task, now))]

\* One turn of the loop over the created list: look the id up in the rows the
\* transaction sees and stage a create or an update.
ClassifyOne(seen, acc, task, now) ==
    IF IsSome(FindUnique(seen, task.id))
    THEN [acc EXCEPT !.updatedTasks = Append(@, ReclassifiedPatch(task))]
    ELSE [acc EXCEPT !.createdTasks = Append(@, CreateData(task, now))]

\* The loop over the updated list, appending to updatedTasks.
RECURSIVE StageUpdates(_, _, _)
StageUpdates(updatedTasks, list, k) ==
    IF k > Len(list) THEN updatedTasks
    ELSE StageUpdates(Append(updatedTasks, UpdatedPatch(list[k])), list, k + 1)

\* Mutant: the update stamps serverCreatedAt as well.
PatchedRowRestamped(row, patch, now) ==
    [ row EXCEPT
        !.name = patch.name,
        !.icon = patch.icon,
        !.isDone = patch.isDone,
        !.isUrgent = IF IsSome(patch.isUrgent) THEN patch.isUrgent ELSE @,
        !.comment = IF IsSome(patch.comment) THEN patch.comment ELSE @,
        !.updatedAt = patch.updatedAt,
        !.serverCreatedAt = now,
        !.serverUpdatedAt = now ]

\* Mutant: the optional keys are written even when the payload lacks them.
PatchedRowFull(row, patch, now) ==
    [ row EXCEPT
        !.name = patch.name,
        !.icon = patch.icon,
        !.isDone = patch.isDone,
        !.isUrgent = patch.isUrgent,
        !.comment = patch.comment,
        !.updatedAt = patch.updatedAt,
        !.serverUpdatedAt = now ]

\* tx.task.update({data: {...task, serverUpdatedAt: now}}) on the row it
\* finds: the keys of the patch overwrite, every other column stays.
PatchedRow(row, patch, now) ==
    [ row EXCEPT
        !.name = patch.name,
        !.icon = patch.icon,
        !.isDone = patch.isDone,
        !.isUrgent = IF IsSome(patch.isUrgent) THEN patch.isUrgent ELSE @,
        !.comment = IF IsSome(patch.comment) THEN patch.comment ELSE @,
        !.updatedAt = patch.updatedAt,
        !.serverUpdatedAt = now ]

\* Mutant: a transaction does not see the rows it wrote.
ViewCommitted(committed, writes) == committed

\* The rows a transaction sees: the committed rows, with the rows it wrote
\* itself in place of (or added to) them.
View(committed, writes) ==
    { r \in committed : r.id \notin Ids(writes) } \cup writes

\* A write of the transaction, kept until it commits or rolls back.
Written(writes, row) == { r \in writes : r.id # row.id } \cup {row}

\* Mutant: the commit keeps the rows of this transaction only.
CommitOwnRows(committed, writes) == writes

\* $transaction resolving: the writes become the committed rows.
Commit(committed, writes) == View(committed, writes)

\* Mutant: the writes made before the error stay.
RollbackKeepsWrites(committed, writes) ==
    { r \in committed : r.id \notin Ids(writes) } \cup writes

\* $transaction rejecting: the writes are dropped.
Rollback(committed, writes) == committed

Ok == [status |-> "ok", cause |-> "", ids |-> {}]
\* What the caller gets when the transaction throws: one ExtendedTRPCError
\* carrying the cause.
ExtendedTRPCError(cause, ids) == [status |-> "error", cause |-> cause, ids |-> ids]

-----------------------------------------------------------------------------
(* pushChanges run from start to end on the rows it sees *)

\* The loop over the created list, every lookup seeing the same rows.
RECURSIVE Classify(_, _, _, _, _)
Classify(seen, acc, list, k, now) ==
    IF k > Len(list) THEN acc
    ELSE Classify(seen, ClassifyOne(seen, acc, list[k], now), list, k + 1, now)

\* The update queries, run in the order `order` (Promise.all leaves it open).
\* An update whose id matches no row the transaction sees throws.
RECURSIVE RunUpdates(_, _, _, _, _, _)
RunUpdates(committed, writes, patches, order, k, now) ==
    IF k > Len(order) THEN [writes |-> writes, failed |-> None]
    ELSE LET patch == patches[order[k]]
             row == FindUnique(View(committed, writes), patch.id)
         IN  IF ~IsSome(row)
             THEN [writes |-> writes, failed |-> Some(patch.id)]
             ELSE RunUpdates(committed,
                             Written(writes, PatchedRow(Val(row), patch, now)),
                             patches, order, k + 1, now)

Orders(n) == { f \in [1..n -> 1..n] : \A i, j \in 1..n : f[i] = f[j] => i = j }

NoLists == [createdTasks |-> << >>, updatedTasks |-> << >>]

\* createdTasks and updatedTasks as the two loops leave them, and updatedTasks
\* as it is when createMany runs (the reclassified creates only).
StagedLists(seen, changes, now) ==
    LET acc == Classify(seen, NoLists, Entries(changes.created), 1, now)
    IN  [ createdTasks |-> acc.createdTasks,
          reclassified |-> acc.updatedTasks,
          updatedTasks |-> StageUpdates(acc.updatedTasks, Entries(changes.updated), 1) ]

\* The whole mutation with nothing else running: the committed rows and the
\* outcome it ends with.
PushResult(committed, changes, now, order) ==
    LET lists == StagedLists(committed, changes, now)
        bad == UniqueViolations(committed, lists.createdTasks)
        inserted == CreateMany({}, lists.createdTasks)
        run == RunUpdates(committed, inserted, lists.updatedTasks, order, 1, now)
    IN  IF bad # {}
        THEN [ db |-> Rollback(committed, {}),
               outcome |-> ExtendedTRPCError("unique", bad),
               createdTasks |-> lists.createdTasks,
               updatedTasks |-> lists.reclassified,
               touched |-> {} ]
        ELSE IF IsSome(run.failed)
        THEN [ db |-> Rollback(committed, run.writes),
               outcome |-> ExtendedTRPCError("notfound", {Val(run.failed)}),
               createdTasks |-> lists.createdTasks,
               updatedTasks |-> lists.updatedTasks,
               touched |-> {} ]
        ELSE [ db |-> Commit(committed, run.writes),
               outcome |-> Ok,
               createdTasks |-> lists.createdTasks,
               updatedTasks |-> lists.updatedTasks,
               touched |-> Ids(run.writes) ]

-----------------------------------------------------------------------------
(* The record of a pushChanges call *)

NoChanges == [created |-> None, updated |-> None, deleted |-> None]

IdleTx ==
    [ pc |-> "idle", changes |-> NoChanges, now |-> 0, k |-> 0,
      createdTasks |-> << >>, updatedTasks |-> << >>, todo |-> {},
      writes |-> {}, outcome |-> None, no |-> 0,
      before |-> {}, again |-> {}, retry |-> FALSE ]

\* The record of a pullChanges call.
NoPullInput == [lastPulledAt |-> None, schemaVersion |-> 0, migration |-> None]

IdlePull ==
    [ pc |-> "idle", input |-> NoPullInput, safeLastPulledAt |-> 0,
      createdTasks |-> {}, updatedTasks |-> {}, response |-> None,
      first |-> None, follows |-> FALSE, quiet |-> FALSE ]

\* What the call is told apart by when it starts: the rows committed then,
\* the created tasks it sends again after the slot's last call committed
\* them, and whether it resends that call's whole change set.
Started(t, changes) ==
    LET last == tx[t]
        lastOk == last.pc = "done" /\ last.outcome = Some(Ok) /\ last.no = npush
    IN  [ IdleTx EXCEPT
            !.changes = changes,
            !.now = clock,
            !.no = npush + 1,
            !.before = db,
            !.again = IF lastOk
                      THEN SeqToSet(Entries(changes.created))
                             \cap SeqToSet(Entries(last.changes.created))
                      ELSE {},
            !.retry = lastOk /\ changes = last.changes ]

Running(t) == tx[t].pc \notin {"idle", "done"}

\* A commit reaches the client's bookkeeping: the rows it wrote are yet to be
\* delivered, and the store is no longer as the last pull left it.
Notified(touched) ==
    IF touched = {} THEN client
    ELSE IF client.inProtocol /\ IsSome(client.watermark)
    THEN [client EXCEPT !.pending = @ \cup touched, !.quiet = FALSE]
    ELSE [client EXCEPT !.pending = IF client.inProtocol THEN @ \cup touched ELSE {},
                        !.quiet = FALSE, !.watermark = None]

-----------------------------------------------------------------------------
(* pushChanges one store call at a time.  Another transaction may run between
   two calls; a transaction reads the committed rows and its own writes, and
   waits for a row another running transaction has written. *)

LockedByOther(t, id) ==
    \E u \in TxIds \ {t} : Running(u) /\ id \in Ids(tx[u].writes)

\* The transaction opens and Date.now() is read.
PushBegin(t, inputs) ==
    /\ ~Running(t)
    /\ \A u \in TxIds : u < t => Running(u)
    /\ npush < MaxPush
    /\ \E changes \in inputs :
         tx' = [tx EXCEPT ![t] =
                  [Started(t, changes) EXCEPT
                     !.pc = IF Entries(changes.created) = << >>
                            THEN "insert" ELSE "lookup",
                     !.k = 1]]
    /\ npush' = npush + 1
    /\ UNCHANGED <<db, clock, pull, client>>

\* findUnique for the k-th created task.
PushLookup(t) ==
    /\ tx[t].pc = "lookup"
    /\ LET list == Entries(tx[t].changes.created)
           acc == ClassifyOne(View(db, tx[t].writes),
                              [createdTasks |-> tx[t].createdTasks,
                               updatedTasks |-> tx[t].updatedTasks],
                              list[tx[t].k], tx[t].now)
       IN  tx' = [tx EXCEPT ![t].createdTasks = acc.createdTasks,
                            ![t].updatedTasks = acc.updatedTasks,
                            ![t].k = @ + 1,
                            ![t].pc = IF tx[t].k = Len(list)
                                      THEN "insert" ELSE "lookup"]
    /\ UNCHANGED <<db, clock, pull, client, npush>>

\* The transaction callback throws: rollback, one error to the caller.
Failed(t, cause, ids) ==
    /\ db' = Rollback(db, tx[t].writes)
    /\ tx' = [tx EXCEPT ![t].pc = "done", ![t].k = 0, ![t].todo = {},
                        ![t].writes = {},
                        ![t].outcome = Some(ExtendedTRPCError(cause, ids))]

\* createMany, then the loop over the updated list and the update queries
\* are issued.
PushCreateMany(t) ==
    /\ tx[t].pc = "insert"
    /\ \A i \in 1..Len(tx[t].createdTasks) :
         LET id == tx[t].createdTasks[i].id
         IN  ~(id \notin Ids(db) /\ LockedByOther(t, id))
    /\ LET bad == UniqueViolations(View(db, tx[t].writes), tx[t].createdTasks)
           staged == StageUpdates(tx[t].updatedTasks,
                                  Entries(tx[t].changes.updated), 1)
       IN  IF bad # {}
           THEN Failed(t, "unique", bad)
           ELSE /\ tx' = [tx EXCEPT
                            ![t].writes = CreateMany(@, tx[t].createdTasks),
                            ![t].updatedTasks = staged,
                            ![t].todo = 1..Len(staged),
                            ![t].pc = IF Len(staged) = 0
                                      THEN "commit" ELSE "update"]
                /\ db' = db
    /\ UNCHANGED <<clock, pull, client, npush>>

\* One of the update queries runs.
PushUpdate(t) ==
    /\ tx[t].pc = "update"
    /\ \E j \in tx[t].todo :
         LET patch == tx[t].updatedTasks[j]
             row == FindUnique(View(db, tx[t].writes), patch.id)
         IN  /\ ~(patch.id \in Ids(db) /\ LockedByOther(t, patch.id))
             /\ IF ~IsSome(row)
                THEN Failed(t, "notfound", {patch.id})
                ELSE /\ tx' = [tx EXCEPT
                                 ![t].writes =
                                     Written(@, PatchedRow(Val(row), patch, tx[t].now)),
                                 ![t].todo = @ \ {j},
                                 ![t].pc = IF tx[t].todo = {j}
                                           THEN "commit" ELSE "update"]
                     /\ db' = db
    /\ UNCHANGED <<clock, pull, client, npush>>

\* The callback returned: the transaction commits.
PushCommit(t) ==
    /\ tx[t].pc = "commit"
    /\ db' = Commit(db, tx[t].writes)
    /\ tx' = [tx EXCEPT ![t].pc = "done", ![t].k = 0, ![t].todo = {},
                        ![t].writes = {}, ![t].outcome = Some(Ok)]
    /\ client' = Notified(Ids(tx[t].writes))
    /\ UNCHANGED <<clock, pull, npush>>

-----------------------------------------------------------------------------
(* pullChanges *)

SentinelWatermark == 1

\* let safeLastPulledAt = 1; if (!!input.lastPulledAt) ...: null and 0 are
\* falsy.
SafeLastPulledAt(lastPulledAt) ==
    IF IsSome(lastPulledAt) /\ Val(lastPulledAt) # 0
    THEN Val(lastPulledAt)
    ELSE SentinelWatermark

\* Mutant: gte in place of gt.
CreatedSinceInclusive(store, w) == { r \in store : r.serverCreatedAt >= w }

\* findMany({where: {serverCreatedAt: {gt}}})
CreatedSince(store, w) == { r \in store : r.serverCreatedAt > w }

\* Mutant: the serverCreatedAt bound is left out.
UpdatedSinceUnbounded(store, w) == { r \in store : r.serverUpdatedAt > w }

\* Mutant: lt in place of lte.
UpdatedSinceExclusive(store, w) ==
    { r \in store : r.serverUpdatedAt > w /\ r.serverCreatedAt < w }

\* findMany({where: {AND: [{serverUpdatedAt: {gt}}, {serverCreatedAt: {lte}}]}})
UpdatedSince(store, w) ==
    { r \in store : r.serverUpdatedAt > w /\ r.serverCreatedAt <= w }

\* findMany()
AllTasks(store) == store

-----------------------------------------------------------------------------
(* JSON.parse(input.migration) and migration?.from < 2.  A text is a sequence
   of one-character strings. *)

Digits == <<"0", "1", "2", "3", "4", "5", "6", "7", "8", "9">>
HexLetters == <<"a", "b", "c", "d", "e", "f">>
HexCapitals == <<"A", "B", "C", "D", "E", "F">>

IsDigit(c) == \E d \in 1..10 : Digits[d] = c
DigitVal(c) == (CHOOSE d \in 1..10 : Digits[d] = c) - 1
HexChars ==
    { Digits[d] : d \in 1..10 } \cup { HexLetters[d] : d \in 1..6 }
      \cup { HexCapitals[d] : d \in 1..6 }
IsHex(c) == c \in HexChars
HexVal(c) ==
    IF IsDigit(c) THEN DigitVal(c)
    ELSE 9 + (CHOOSE d \in 1..6 : HexLetters[d] = c \/ HexCapitals[d] = c)

\* Stands for the character U+0060, which no string of a module can hold.
Grave == "<grave>"

\* The characters U+0020 to U+007E in code order.
Printable ==
    <<" ", "!", "\"", "#", "$", "%", "&", "'", "(", ")", "*", "+",
       ",", "-", ".", "/", "0", "1", "2", "3", "4", "5", "6", "7",
       "8", "9", ":", ";", "<", "=", ">", "?", "@", "A", "B", "C",
       "D", "E", "F", "G", "H", "I", "J", "K", "L", "M", "N", "O",
       "P", "Q", "R", "S", "T", "U", "V", "W", "X", "Y", "Z", "[",
       "\\", "]", "^", "_", Grave, "a", "b", "c", "d", "e", "f", "g",
       "h", "i", "j", "k", "l", "m", "n", "o", "p", "q", "r", "s",
       "t", "u", "v", "w", "x", "y", "z", "{", "|", "}", "~" >>

\* What stands for the characters outside Printable and "\t" "\n" "\f" "\r":
\* U+000B; every other control character, U+0000 to U+0008 and U+000E to
\* U+001F; the white space of the language from U+00A0 on (U+00A0, U+FEFF,
\* the space separators, the line and paragraph separators); every other
\* character from U+007F on.
VerticalTab == "<vt>"
OtherControl == "<control>"
OtherSpace == "<space>"
OtherChar == "<other>"

SpaceCodes ==
    {160, 5760, 8232, 8233, 8239, 8287, 12288, 65279} \cup 8192..8202

\* The character of a code unit, in a text or written \uXXXX in a string.
FromCodeUnit(n) ==
    IF n \in 32..126 THEN Printable[n - 31]
    ELSE IF n = 9 THEN "\t"
    ELSE IF n = 10 THEN "\n"
    ELSE IF n = 11 THEN VerticalTab
    ELSE IF n = 12 THEN "\f"
    ELSE IF n = 13 THEN "\r"
    ELSE IF n \in 0..31 THEN OtherControl
    ELSE IF n \in SpaceCodes THEN OtherSpace
    ELSE OtherChar

\* The character of a two-character escape other than \" \\ \/.
Escaped(e) ==
    IF e = "b" THEN FromCodeUnit(8)
    ELSE IF e = "f" THEN "\f"
    ELSE IF e = "n" THEN "\n"
    ELSE IF e = "r" THEN "\r"
    ELSE "\t"

\* The control characters U+0000 to U+001F: JSON.parse rejects them inside a
\* string.
ControlChars == { FromCodeUnit(n) : n \in 0..31 }

\* White space between the tokens of a JSON text.
JSONWhiteSpace == {" ", "\t", "\n", "\r"}

\* The character at position i; "" past the end.
At(s, i) == IF i \in 1..Len(s) THEN s[i] ELSE ""

RECURSIVE SkipWs(_, _)
SkipWs(s, i) == IF At(s, i) \in JSONWhiteSpace THEN SkipWs(s, i + 1) ELSE i

\* The position after the digits that start at i.
RECURSIVE DigitRun(_, _)
DigitRun(s, i) == IF IsDigit(At(s, i)) THEN DigitRun(s, i + 1) ELSE i

\* The digits at positions i .. j-1.
DigitVals(s, i, j) == [k \in 1..(j - i) |-> DigitVal(s[i + k - 1])]

\* The number the digits ds denote when it is at most cap, and some number
\* past cap when it is more.  An exponent is read with the length of its
\* literal as cap: past that length the digits of the literal no longer
\* decide on which side of 2 the number lies.
RECURSIVE Saturated(_, _, _, _)
Saturated(ds, k, acc, cap) ==
    IF k > Len(ds) THEN acc
    ELSE Saturated(ds, k + 1, IF acc > cap THEN acc ELSE acc * 10 + ds[k], cap)

\* The values JSON.parse builds.  Of an object only the member from (the last
\* one of that name) and the presence of a member toString are kept.
NullValue == [kind |-> "null"]
BoolValue(b) == [kind |-> "bool", b |-> b]
NumberValue(neg, int, frac, exp) ==
    [kind |-> "num", neg |-> neg, int |-> int, frac |-> frac, exp |-> exp]
StringValue(chars) == [kind |-> "str", chars |-> chars]
ArrayValue(items) == [kind |-> "arr", items |-> items]
ObjectValue(from, toString) == [kind |-> "obj", from |-> from, toString |-> toString]

SyntaxError == [ok |-> FALSE, pos |-> 0, val |-> NullValue]
Parsed(pos, val) == [ok |-> TRUE, pos |-> pos, val |-> val]

\* number: -? (0 | [1-9][0-9]*) (. [0-9]+)? ([eE] [+-]? [0-9]+)?
ParseNumber(s, i) ==
    LET neg == At(s, i) = "-"
        a == IF neg THEN i + 1 ELSE i
        b == IF At(s, a) = "0" THEN a + 1 ELSE DigitRun(s, a)
        hasFrac == At(s, b) = "."
        c == IF hasFrac THEN DigitRun(s, b + 1) ELSE b
        hasExp == At(s, c) \in {"e", "E"}
        d == IF At(s, c + 1) \in {"+", "-"} THEN c + 2 ELSE c + 1
        e == IF hasExp THEN DigitRun(s, d) ELSE c
    IN  IF b = a \/ (hasFrac /\ c = b + 1) \/ (hasExp /\ e = d)
        THEN SyntaxError
        ELSE Parsed(e, NumberValue(
                 neg,
                 DigitVals(s, a, b),
                 IF hasFrac THEN DigitVals(s, b + 1, c) ELSE << >>,
                 IF ~hasExp THEN 0
                 ELSE IF At(s, c + 1) = "-"
                 THEN 0 - Saturated(DigitVals(s, d, e), 1, 0, e - i)
                 ELSE Saturated(DigitVals(s, d, e), 1, 0, e - i)))

\* The characters of a string up to its closing quote, escapes decoded.
RECURSIVE ParseChars(_, _, _)
ParseChars(s, i, acc) ==
    LET c == At(s, i)
        e == At(s, i + 1)
    IN  IF c = "" \/ c \in ControlChars THEN SyntaxError
        ELSE IF c = "\"" THEN Parsed(i + 1, StringValue(acc))
        ELSE IF c # "\\" THEN ParseChars(s, i + 1, Append(acc, c))
        ELSE IF e \in {"\"", "\\", "/"} THEN ParseChars(s, i + 2, Append(acc, e))
        ELSE IF e \in {"b", "f", "n", "r", "t"}
        THEN ParseChars(s, i + 2, Append(acc, Escaped(e)))
        ELSE IF e = "u" /\ \A k \in 2..5 : IsHex(At(s, i + k))
        THEN ParseChars(s, i + 6,
                 Append(acc, FromCodeUnit(4096 * HexVal(s[i + 2]) + 256 * HexVal(s[i + 3])
                                            + 16 * HexVal(s[i + 4]) + HexVal(s[i + 5]))))
        ELSE SyntaxError

\* The text holds `word` at position i.
Literal(s, i, word) == \A k \in 1..Len(word) : At(s, i + k - 1) = word[k]

FromKey == <<"f", "r", "o", "m">>
ToStringKey == <<"t", "o", "S", "t", "r", "i", "n", "g">>

RECURSIVE ParseValue(_, _)
RECURSIVE ParseElements(_, _, _)
RECURSIVE ParseMembers(_, _, _, _)

\* The value that starts at position i.
ParseValue(s, i) ==
    LET c == At(s, i)
        j == SkipWs(s, i + 1)
    IN  IF c = "{"
        THEN IF At(s, j) = "}" THEN Parsed(j + 1, ObjectValue(None, FALSE))
             ELSE ParseMembers(s, j, None, FALSE)
        ELSE IF c = "["
        THEN IF At(s, j) = "]" THEN Parsed(j + 1, ArrayValue(<< >>))
             ELSE ParseElements(s, j, << >>)
        ELSE IF c = "\"" THEN ParseChars(s, i + 1, << >>)
        ELSE IF c = "-" \/ IsDigit(c) THEN ParseNumber(s, i)
        ELSE IF Literal(s, i, <<"t", "r", "u", "e">>) THEN Parsed(i + 4, BoolValue(TRUE))
        ELSE IF Literal(s, i, <<"f", "a", "l", "s", "e">>) THEN Parsed(i + 5, BoolValue(FALSE))
        ELSE IF Literal(s, i, <<"n", "u", "l", "l">>) THEN Parsed(i + 4, NullValue)
        ELSE SyntaxError

\* The elements of an array from position i, up to its closing bracket.
ParseElements(s, i, acc) ==
    LET v == ParseValue(s, i)
        j == SkipWs(s, v.pos)
    IN  IF ~v.ok THEN SyntaxError
        ELSE IF At(s, j) = ","
        THEN ParseElements(s, SkipWs(s, j + 1), Append(acc, v.val))
        ELSE IF At(s, j) = "]" THEN Parsed(j + 1, ArrayValue(Append(acc, v.val)))
        ELSE SyntaxError

\* The members of an object from position i, up to its closing brace.
ParseMembers(s, i, from, toString) ==
    LET key == IF At(s, i) = "\"" THEN ParseChars(s, i + 1, << >>) ELSE SyntaxError
        j == SkipWs(s, key.pos)
        v == IF key.ok /\ At(s, j) = ":"
             THEN ParseValue(s, SkipWs(s, j + 1)) ELSE SyntaxError
        k == SkipWs(s, v.pos)
        from2 == IF key.val.chars = FromKey THEN Some(v.val) ELSE from
        toString2 == toString \/ key.val.chars = ToStringKey
    IN  IF ~v.ok THEN SyntaxError
        ELSE IF At(s, k) = "," THEN ParseMembers(s, SkipWs(s, k + 1), from2, toString2)
        ELSE IF At(s, k) = "}" THEN Parsed(k + 1, ObjectValue(from2, toString2))
        ELSE SyntaxError

\* JSON.parse(str): one value with white space around it, or a SyntaxError.
JSONParse(str) ==
    LET v == ParseValue(str, SkipWs(str, 1))
    IN  IF v.ok /\ SkipWs(str, v.pos) = Len(str) + 1
        THEN [ok |-> TRUE, val |-> v.val]
        ELSE [ok |-> FALSE, val |-> NullValue]

\* The digits after the point of 2 - 2^-53, halfway between 2 and the
\* largest double below 2: a decimal rounds to a double below 2 exactly when
\* it is below this.
LargestBelowTwo ==
    << 9, 9, 9, 9, 9, 9, 9, 9, 9, 9, 9, 9, 9, 9, 9, 8, 8, 8, 9, 7, 7, 6, 9, 7, 5, 3, 7,
       4, 8, 4, 3, 4, 5, 9, 5, 7, 6, 3, 6, 8, 3, 3, 1, 9, 0, 9, 1, 7, 9, 6, 8, 7, 5 >>

PaddedAt(ds, k) == IF k <= Len(ds) THEN ds[k] ELSE 0

\* Digit sequence a, read as a fraction, is below digit sequence b.
FractionBelow(a, b) ==
    \E k \in 1..Len(b) :
      /\ PaddedAt(a, k) < b[k]
      /\ \A m \in 1..(k - 1) : PaddedAt(a, m) = b[m]

RECURSIVE LeadingZeros(_, _)
LeadingZeros(ds, k) ==
    IF k <= Len(ds) /\ ds[k] = 0 THEN LeadingZeros(ds, k + 1) ELSE k - 1

\* The double a decimal literal denotes is below 2.  The literal is
\* 0.d1d2... * 10^p with d1 the first digit that is not 0.
DecimalBelowTwo(neg, int, frac, exp) ==
    LET ds == int \o frac
        z == LeadingZeros(ds, 1)
        p == Len(int) - z + exp
    IN  \/ neg
        \/ z = Len(ds)
        \/ p <= 0
        \/ /\ p = 1
           /\ ds[z + 1] = 1
           /\ FractionBelow(SubSeq(ds, z + 2, Len(ds)), LargestBelowTwo)

\* White space that StringToNumber strips from both ends.
StrWhiteSpace == {" ", "\t", "\n", VerticalTab, "\f", "\r", OtherSpace}

RECURSIVE TrimLeft(_)
TrimLeft(s) == IF Len(s) > 0 /\ s[1] \in StrWhiteSpace THEN TrimLeft(Tail(s)) ELSE s

RECURSIVE TrimRight(_)
TrimRight(s) ==
    IF Len(s) > 0 /\ s[Len(s)] \in StrWhiteSpace
    THEN TrimRight(SubSeq(s, 1, Len(s) - 1)) ELSE s

\* The digits of a literal 0x.., 0o.. or 0b.. denote 0 or 1.
RadixBelowTwo(s, digits) ==
    /\ Len(s) >= 3
    /\ \A k \in 3..Len(s) : s[k] \in digits
    /\ \A k \in 3..(Len(s) - 1) : s[k] = "0"
    /\ s[Len(s)] \in {"0", "1"}

\* [+-]? (digits (. digits?)? | . digits) ([eE] [+-]? digits)? to the end of
\* s, denoting a double below 2.
StrDecimalBelowTwo(s) ==
    LET neg == At(s, 1) = "-"
        a == IF At(s, 1) \in {"+", "-"} THEN 2 ELSE 1
        b == DigitRun(s, a)
        hasPoint == At(s, b) = "."
        c == IF hasPoint THEN DigitRun(s, b + 1) ELSE b
        hasExp == At(s, c) \in {"e", "E"}
        d == IF At(s, c + 1) \in {"+", "-"} THEN c + 2 ELSE c + 1
        e == IF hasExp THEN DigitRun(s, d) ELSE c
        exp == IF ~hasExp THEN 0
               ELSE IF At(s, c + 1) = "-"
               THEN 0 - Saturated(DigitVals(s, d, e), 1, 0, Len(s))
               ELSE Saturated(DigitVals(s, d, e), 1, 0, Len(s))
    IN  /\ (b - a) + (IF hasPoint THEN c - b - 1 ELSE 0) > 0
        /\ hasExp => e > d
        /\ e = Len(s) + 1
        /\ DecimalBelowTwo(neg, DigitVals(s, a, b),
                           IF hasPoint THEN DigitVals(s, b + 1, c) ELSE << >>, exp)

Infinity == <<"I", "n", "f", "i", "n", "i", "t", "y">>

\* StringToNumber(chars) < 2: an empty string is 0, a string that is no
\* numeric literal is NaN.
StringBelowTwo(chars) ==
    LET s == TrimRight(TrimLeft(chars))
    IN  \/ Len(s) = 0
        \/ s = <<"-">> \o Infinity
        \/ /\ At(s, 1) = "0"
           /\ \/ At(s, 2) \in {"x", "X"} /\ RadixBelowTwo(s, HexChars)
              \/ At(s, 2) \in {"o", "O"} /\ RadixBelowTwo(s, { Digits[d] : d \in 1..8 })
              \/ At(s, 2) \in {"b", "B"} /\ RadixBelowTwo(s, {"0", "1"})
        \/ StrDecimalBelowTwo(s)

\* An array holds, at any depth of arrays, an object with a member toString:
\* turning it into a string throws a TypeError.
RECURSIVE JoinTypeError(_)
JoinTypeError(items) ==
    \E k \in 1..Len(items) :
      \/ items[k].kind = "obj" /\ items[k].toString
      \/ items[k].kind = "arr" /\ JoinTypeError(items[k].items)

\* An array holds arrays within arrays down to depth d, itself counted.
RECURSIVE NestedTo(_, _)
NestedTo(items, d) ==
    \/ d <= 1
    \/ \E k \in 1..Len(items) :
         items[k].kind = "arr" /\ NestedTo(items[k].items, d - 1)

\* No number, boolean, null or object turns into a string longer than this.
ElementChars == 25

\* A length the string of an array does not pass: every element with the
\* comma before it.
RECURSIVE JoinBound(_, _)
JoinBound(items, k) ==
    IF k > Len(items) THEN 0
    ELSE 1 + (IF items[k].kind = "arr" THEN JoinBound(items[k].items, 1)
              ELSE IF items[k].kind = "str" THEN Len(items[k].chars)
              ELSE ElementChars)
           + JoinBound(items, k + 1)

\* The join calls itself for every array within an array and builds one
\* string: on an array deep or long enough it exhausts the stack, or passes
\* the longest string, of the engine, and throws a RangeError.  The depth
\* and the length at which it does are the build's (the engine, its stack
\* size, the frames under the handler when it resumes), so the model fixes
\* none: arrays less deep than JoinSafeDepth whose string stays below
\* JoinSafeLength are joined, and for every other array both outcomes are
\* open.
JoinSafeDepth == 1000
JoinSafeLength == 268435440

JoinMayExhaust(items) ==
    NestedTo(items, JoinSafeDepth) \/ JoinBound(items, 1) >= JoinSafeLength

\* The outcomes of turning an array into a string: a string, an error.
JoinOutcomes(items) ==
    IF JoinTypeError(items) THEN {"throw"}
    ELSE IF JoinMayExhaust(items) THEN {"string", "throw"}
    ELSE {"string"}

\* The string of an array (its elements joined by commas, null as the empty
\* string) converts to a number below 2.
RECURSIVE ArrayBelowTwo(_)
ArrayBelowTwo(items) ==
    \/ Len(items) = 0
    \/ /\ Len(items) = 1
       /\ LET x == items[1]
          IN  \/ x.kind = "null"
              \/ x.kind = "num" /\ DecimalBelowTwo(x.neg, x.int, x.frac, x.exp)
              \/ x.kind = "str" /\ StringBelowTwo(x.chars)
              \/ x.kind = "arr" /\ ArrayBelowTwo(x.items)

\* migration?.from, None for undefined: only an object has the property.
FromOf(migration) ==
    IF migration.kind = "obj" THEN migration.from ELSE None

\* x < 2: undefined and NaN compare false, null and false are 0, true is 1.
BelowTwo(x) ==
    /\ IsSome(x)
    /\ LET v == Val(x)
       IN  \/ v.kind \in {"null", "bool"}
           \/ v.kind = "num" /\ DecimalBelowTwo(v.neg, v.int, v.frac, v.exp)
           \/ v.kind = "str" /\ StringBelowTwo(v.chars)
           \/ v.kind = "arr" /\ ArrayBelowTwo(v.items)

\* input.schemaVersion >= 2 && input.migration: the migration string is
\* parsed only then (null and "" are falsy).
ParsesMigration(input) ==
    /\ input.schemaVersion >= 2
    /\ IsSome(input.migration)
    /\ Val(input.migration) # << >>

\* The outcomes of x < 2, which turns an object or an array into a
\* primitive value first: "true", "false", or "throw".
ComparisonOutcomes(x) ==
    LET value == IF BelowTwo(x) THEN "true" ELSE "false"
    IN  IF ~IsSome(x) THEN {value}
        ELSE IF Val(x).kind = "obj" /\ Val(x).toString THEN {"throw"}
        ELSE IF Val(x).kind = "arr"
        THEN { IF o = "throw" THEN "throw" ELSE value : o \in JoinOutcomes(Val(x).items) }
        ELSE {value}

\* The outcomes of the migration check (sync.ts 204 to 208): "all" when
\* findMany() is issued, "incremental" when the list of the second query
\* stays, "throw" when JSON.parse or the comparison throws and the query
\* rejects.
MigrationOutcomes(input) ==
    IF ~ParsesMigration(input) THEN {"incremental"}
    ELSE LET migration == JSONParse(Val(input.migration))
         IN  IF ~migration.ok THEN {"throw"}
             ELSE { IF o = "throw" THEN "throw"
                    ELSE IF o = "true" THEN "all" ELSE "incremental" :
                      o \in ComparisonOutcomes(FromOf(migration.val)) }

\* if (migration?.from < 2), in a pull that responds.
FullResync(input) == "all" \in MigrationOutcomes(input)

-----------------------------------------------------------------------------
(* pullChanges: the response *)

\* A stored task as the response carries it.
ToWire(task) ==
    [ id |-> task.id, name |-> task.name, icon |-> task.icon,
      is_done |-> task.isDone, is_urgent |-> task.isUrgent,
      comment |-> task.comment,
      created_at |-> task.createdAt, updated_at |-> task.updatedAt ]

\* Mutant: the response names a record it returns as deleted.
ResponseWithDeleted(createdTasks, updatedTasks, now) ==
    [ status |-> "ok",
      timestamp |-> now,
      created |-> { ToWire(r) : r \in createdTasks },
      updated |-> { ToWire(r) : r \in updatedTasks },
      deleted |-> IF createdTasks \cup updatedTasks = {}
                  THEN << >>
                  ELSE << (CHOOSE r \in createdTasks \cup updatedTasks : TRUE).id >> ]

\* The response: both lists in wire shape, deleted: [] and Date.now().
Response(createdTasks, updatedTasks, now) ==
    [ status |-> "ok",
      timestamp |-> now,
      created |-> { ToWire(r) : r \in createdTasks },
      updated |-> { ToWire(r) : r \in updatedTasks },
      deleted |-> << >> ]

\* JSON.parse or the comparison threw: the query rejects and no change set
\* is returned.
ErrorResponse ==
    [ status |-> "error", timestamp |-> 0, created |-> {}, updated |-> {},
      deleted |-> << >> ]

\* The inputs of the model: null, 0 and every clock value as watermark.
Watermarks == {None, Some(0)} \cup { Some(w) : w \in SentinelWatermark + 1 .. MaxClock }

Quoted(chars) == <<"\"">> \o chars \o <<"\"">>

\* The text {"from":value}.
Descriptor(value) == <<"{">> \o Quoted(FromKey) \o <<":">> \o value \o <<"}">>

FromOne == Descriptor(<<"1">>)
FromTwo == Descriptor(<<"2">>)
NoFrom == <<"{", "}">>
NotJSON == <<"n", "o", "t", " ", "j", "s", "o", "n">>
NullText == <<"n", "u", "l", "l">>
TrueText == <<"t", "r", "u", "e">>

\* { "from": 1 }
FromOneSpaced ==
    <<"{", " ">> \o Quoted(FromKey) \o <<":", " ", "1", " ", "}">>

\* {"from":1,"tables":[],"columns":[]}
FromOneWithTables ==
    <<"{">> \o Quoted(FromKey) \o <<":", "1", ",">>
      \o Quoted(<<"t", "a", "b", "l", "e", "s">>) \o <<":", "[", "]", ",">>
      \o Quoted(<<"c", "o", "l", "u", "m", "n", "s">>) \o <<":", "[", "]", "}">>

\* {"from":{"toString":1}}
FromObjectWithToString ==
    Descriptor(<<"{">> \o Quoted(ToStringKey) \o <<":", "1", "}">>)

\* {"from":"?1"} with the character U+000B itself at the place of ?.
FromWithVerticalTab == Descriptor(Quoted(<<VerticalTab, "1">>))

\* {"from":"\u000b1"}, the same character written as an escape.
FromWithEscapedTab ==
    Descriptor(Quoted(<<"\\", "u", "0", "0", "0", "b", "1">>))

\* {"from":1,"a?":2} with the character U+0001 itself at the place of ?.
FromOneWithControl ==
    <<"{">> \o Quoted(FromKey) \o <<":", "1", ",">>
      \o Quoted(<<"a", OtherControl>>) \o <<":", "2", "}">>

\* The migrations sent with every watermark: null, "", from 1, from 2, an
\* object without from, a string that is not JSON.
Migrations ==
    { None, Some(<< >>), Some(FromOne), Some(FromTwo), Some(NoFrom), Some(NotJSON) }

\* The migrations sent with one watermark: other numbers as from, a from
\* that is no number, other members and white space, texts that are no
\* object, control characters inside a string.
MoreMigrations ==
    { Descriptor(<<"0">>), Descriptor(<<"-", "1">>), Descriptor(<<"1", ".", "5">>),
      Descriptor(<<"3">>), Descriptor(Quoted(<<"1">>)), Descriptor(Quoted(<<"x">>)),
      Descriptor(NullText), Descriptor(TrueText), Descriptor(<<"[", "]">>),
      FromObjectWithToString, FromOneSpaced, FromOneWithTables,
      FromWithVerticalTab, FromWithEscapedTab, FromOneWithControl,
      NullText, <<"[", "]">>, <<"1">>, Quoted(<<"x">>) }

\* Every migration of Migrations with schema version 2, and the versions
\* around it with the migration from 1.
VersionsAndMigrations ==
    { <<2, m>> : m \in Migrations }
      \cup { <<v, Some(FromOne)>> : v \in {1, 3} }

PullInputs ==
    { [lastPulledAt |-> w, schemaVersion |-> vm[1], migration |-> vm[2]] :
        w \in Watermarks, vm \in VersionsAndMigrations }
      \cup { [lastPulledAt |-> Some(SentinelWatermark + 1), schemaVersion |-> 2,
              migration |-> Some(m)] : m \in MoreMigrations }

\* The input of a client that follows the protocol, without a migration or
\* with the migration from 1.
NextPullInputs ==
    { [lastPulledAt |-> client.watermark, schemaVersion |-> 2, migration |-> m] :
        m \in {None, Some(FromOne)} }

\* The client takes a response: the timestamp is its next watermark, and a
\* row it was sent as it is committed now is no longer pending.
Delivered(rows, timestamp, follows) ==
    [ watermark |-> Some(timestamp),
      pending |-> IF client.inProtocol /\ follows
                  THEN client.pending \ Ids(rows \cap db)
                  ELSE {},
      quiet |-> TRUE,
      inProtocol |-> client.inProtocol /\ follows ]

\* The lists of the push before this pull, when that push was the first
\* request served, started from the empty store and committed.
FirstPush ==
    IF \E t \in TxIds : /\ tx[t].pc = "done" /\ tx[t].outcome = Some(Ok)
                        /\ npush = 1 /\ tx[t].before = {}
    THEN LET t == CHOOSE u \in TxIds : tx[u].pc = "done"
         IN  Some([ created |-> Entries(tx[t].changes.created),
                    updated |-> Entries(tx[t].changes.updated) ])
    ELSE None

\* The call as it starts.
PullStarted(input) ==
    [ IdlePull EXCEPT
        !.input = input,
        !.safeLastPulledAt = SafeLastPulledAt(input.lastPulledAt),
        !.first = FirstPush,
        !.follows = (input.lastPulledAt = client.watermark) ]

\* The two lists of a response when every query sees the same rows.
PullLists(store, input) ==
    LET w == SafeLastPulledAt(input.lastPulledAt)
    IN  [ createdTasks |-> CreatedSince(store, w),
          updatedTasks |-> IF FullResync(input)
                           THEN AllTasks(store)
                           ELSE UpdatedSince(store, w) ]

\* The call starts and the first query runs.
PullBegin(inputs) ==
    /\ pull.pc \in {"idle", "done"}
    /\ \E input \in inputs :
         pull' = [PullStarted(input) EXCEPT
                    !.pc = "updated",
                    !.createdTasks = CreatedSince(db, SafeLastPulledAt(input.lastPulledAt))]
    /\ UNCHANGED <<db, clock, tx, client, npush>>

\* The second query runs.
PullUpdated ==
    /\ pull.pc = "updated"
    /\ pull' = [pull EXCEPT !.pc = "migration",
                            !.updatedTasks = UpdatedSince(db, pull.safeLastPulledAt)]
    /\ UNCHANGED <<db, clock, tx, client, npush>>

\* The response is built and Date.now() read.
Returned ==
    /\ pull' = [pull EXCEPT !.pc = "done",
                            !.response = Some(Response(pull.createdTasks,
                                                       pull.updatedTasks, clock)),
                            !.quiet = client.quiet]
    /\ client' = Delivered(pull.createdTasks \cup pull.updatedTasks, clock, pull.follows)

\* After the second query: the migration check, which throws, issues
\* findMany() or goes on to the response.
PullMigration ==
    /\ pull.pc = "migration"
    /\ \E outcome \in MigrationOutcomes(pull.input) :
         IF outcome = "throw"
         THEN /\ pull' = [pull EXCEPT !.pc = "done",
                                      !.response = Some(ErrorResponse),
                                      !.quiet = client.quiet]
              /\ client' = client
         ELSE IF outcome = "all"
         THEN /\ pull' = [pull EXCEPT !.pc = "all"]
              /\ client' = client
         ELSE Returned
    /\ UNCHANGED <<db, clock, tx, npush>>

\* findMany() runs.
PullAll ==
    /\ pull.pc = "all"
    /\ pull' = [pull EXCEPT !.pc = "return", !.updatedTasks = AllTasks(db)]
    /\ UNCHANGED <<db, clock, tx, client, npush>>

PullReturn ==
    /\ pull.pc = "return"
    /\ Returned
    /\ UNCHANGED <<db, clock, tx, npush>>

-----------------------------------------------------------------------------
(* The clock and the specifications *)

Tick ==
    /\ clock < MaxClock
    /\ clock' = clock + 1
    /\ UNCHANGED <<db, tx, pull, client, npush>>

Init ==
    /\ db = {}
    /\ clock = SentinelWatermark + 1
    /\ tx = [t \in TxIds |-> IdleTx]
    /\ pull = IdlePull
    /\ client = [watermark |-> None, pending |-> {}, quiet |-> TRUE,
                 inProtocol |-> TRUE]
    /\ npush = 0

\* Pushes of every kind of change set, suspended at their store calls.
Next ==
    \/ \E t \in TxIds : PushBegin(t, ChangeSets)
    \/ \E t \in TxIds : PushLookup(t)
    \/ \E t \in TxIds : PushCreateMany(t)
    \/ \E t \in TxIds : PushUpdate(t)
    \/ \E t \in TxIds : PushCommit(t)
    \/ Tick

Spec == Init /\ [][Next]_vars

\* Pushes and the pulls of a client that follows the protocol, suspended at
\* their store calls.
NextConc ==
    \/ \E t \in TxIds : PushBegin(t, ChangeSetsOne)
    \/ \E t \in TxIds : PushLookup(t)
    \/ \E t \in TxIds : PushCreateMany(t)
    \/ \E t \in TxIds : PushUpdate(t)
    \/ \E t \in TxIds : PushCommit(t)
    \/ PullBegin(NextPullInputs)
    \/ PullUpdated
    \/ PullMigration
    \/ PullAll
    \/ PullReturn
    \/ Tick

SpecConc == Init /\ [][NextConc]_vars

\* Pushes that fill the store and one pull with any input, started at any
\* point among them; all suspended at their store calls.  (A pull changes
\* neither the store nor the clock, so what a pull returns among other pulls
\* it returns here.)
NextPull ==
    \/ \E t \in TxIds : PushBegin(t, ChangeSetsPull)
    \/ \E t \in TxIds : PushLookup(t)
    \/ \E t \in TxIds : PushCreateMany(t)
    \/ \E t \in TxIds : PushUpdate(t)
    \/ \E t \in TxIds : PushCommit(t)
    \/ (pull.pc = "idle" /\ PullBegin(PullInputs))
    \/ PullUpdated
    \/ PullMigration
    \/ PullAll
    \/ PullReturn
    \/ Tick

SpecPull == Init /\ [][NextPull]_vars

-----------------------------------------------------------------------------
(* Properties *)

RowsOf(id) == { r \in db : r.id = id }

PatchIds(list) == { list[i].id : i \in 1..Len(list) }

Finished(t) == tx[t].pc = "done"

Succeeded(t) == Finished(t) /\ tx[t].outcome = Some(Ok)

Errored(t) == Finished(t) /\ Val(tx[t].outcome).status = "error"

\* No push ever ran beside the push of slot t: a slot other than the first
\* is taken only while another push runs, so with every other slot unused the
\* pushes so far ran one after the other.
NoneBeside(t) == \A u \in TxIds \ {t} : tx[u].pc = "idle"

\* The change set holds nothing but created tasks that are sent again.
OnlyAgain(t) ==
    /\ Entries(tx[t].changes.updated) = << >>
    /\ SeqToSet(Entries(tx[t].changes.created)) = tx[t].again

\* C1: when a created task r is pushed again after the push that carried it
\* committed, the store holds exactly one row with r's id, the second push
\* stages r as an update and never as an insert, it does not fail on r's id,
\* and it succeeds when it carries nothing but such tasks.
IdempotentCreate ==
    \A t \in TxIds :
      Finished(t) =>
        \A r \in tx[t].again :
          /\ Cardinality(RowsOf(r.id)) = 1
          /\ r.id \notin PatchIds(tx[t].createdTasks)
          /\ r.id \in PatchIds(tx[t].updatedTasks)
          /\ r.id \notin Val(tx[t].outcome).ids
          /\ (OnlyAgain(t) => tx[t].outcome = Some(Ok))

IdempotentCreateWitness ==
    \E t \in TxIds :
      /\ Succeeded(t)
      /\ tx[t].again # {}
      /\ OnlyAgain(t)

\* C2: no stored record is in both the created and the updated list of one
\* pull response, whatever the watermark, schema version and migration.
DisjointPartition ==
    (pull.pc = "done" /\ Val(pull.response).status = "ok") =>
      Ids(Val(pull.response).created) \cap Ids(Val(pull.response).updated) = {}

\* C3: the step on which a push ends in an error leaves the committed rows
\* as they are, and as they were when the push started if no push ran beside
\* it; the caller gets one error carrying the cause; and the committed rows
\* change on no step but the commit of a push that succeeds.
AllOrNothing ==
    [][ /\ \A t \in TxIds :
             (Running(t) /\ tx'[t].pc = "done" /\ tx'[t].outcome # Some(Ok)) =>
               /\ db' = db
               /\ NoneBeside(t) => db' = tx[t].before
               /\ Val(tx'[t].outcome).status = "error"
               /\ Val(tx'[t].outcome).cause \in {"unique", "notfound"}
               /\ Val(tx'[t].outcome).ids # {}
        /\ db' # db =>
             \E t \in TxIds : /\ tx[t].pc = "commit"
                               /\ tx'[t].pc = "done"
                               /\ tx'[t].outcome = Some(Ok) ]_vars

\* A failed push that had inserted a row before an update found no row.
AllOrNothingWitness ==
    \E t \in TxIds :
      /\ Errored(t)
      /\ Val(tx[t].outcome).cause = "notfound"
      /\ PatchIds(tx[t].createdTasks) # {}

Quiescent == pull.pc \in {"idle", "done"} /\ \A t \in TxIds : ~Running(t)

\* C4: for a client that pulls with the timestamp of its previous pull, every
\* row a committed push wrote has been delivered as it stands or is still
\* ahead of the client's watermark, so that the next pull delivers it.
WatermarkCompleteness ==
    (Quiescent /\ client.inProtocol) =>
      \A r \in db :
        r.id \in client.pending =>
          r.serverUpdatedAt > SafeLastPulledAt(client.watermark)

\* C5: every stored record has serverUpdatedAt >= serverCreatedAt.
UpdatedNotBeforeCreated ==
    \A r \in db : r.serverUpdatedAt >= r.serverCreatedAt

\* C6: no step changes the serverCreatedAt of a stored record, and no step
\* removes the record.
ServerCreatedAtWriteOnce ==
    [][ \A r \in db :
          \E q \in db' : q.id = r.id /\ q.serverCreatedAt = r.serverCreatedAt ]_vars

\* A record updated by a later push, once from the updated list and once as
\* a reclassified create.
ServerCreatedAtWitness ==
    \E t \in TxIds :
      /\ Succeeded(t)
      /\ tx[t].again # {}
      /\ Entries(tx[t].changes.updated) # << >>
      /\ \A r \in db : r.serverUpdatedAt > r.serverCreatedAt
      /\ Cardinality(db) = 2

\* The rows a push that is about to commit updated, as they were before its
\* updates: the committed rows (no other push writes a row this one has
\* written) and the rows it inserted.
Prior(t) ==
    db \cup { InsertedRow(tx[t].createdTasks[i]) :
                i \in 1..Len(tx[t].createdTasks) }

PatchesFor(t, id) ==
    { i \in 1..Len(tx[t].updatedTasks) : tx[t].updatedTasks[i].id = id }

\* C7: when a push that applied one update to a record commits, the
\* record's name, icon and done flag are the payload's; its urgency flag and
\* its comment are the payload's when the payload has them and the stored
\* ones otherwise.
SparsePatch ==
    [][ \A t \in TxIds :
          (tx[t].pc = "commit" /\ tx'[t].pc = "done") =>
            \A i \in 1..Len(tx[t].updatedTasks) :
              LET patch == tx[t].updatedTasks[i]
              IN  PatchesFor(t, patch.id) = {i} =>
                    \E old \in Prior(t) : \E new \in db' :
                      /\ old.id = patch.id /\ new.id = patch.id
                      /\ new.name = patch.name
                      /\ new.icon = patch.icon
                      /\ new.isDone = patch.isDone
                      /\ new.isUrgent = IF patch.isUrgent = None
                                        THEN old.isUrgent ELSE patch.isUrgent
                      /\ new.comment = IF patch.comment = None
                                       THEN old.comment ELSE patch.comment ]_vars

\* An update without a comment of a record whose comment is stored, with new
\* required fields and a new urgency flag.
SparsePatchWitness ==
    \E t \in TxIds :
      /\ Succeeded(t)
      /\ Len(tx[t].updatedTasks) = 1
      /\ LET patch == tx[t].updatedTasks[1]
         IN  /\ patch.comment = None
             /\ patch.isUrgent = Some(FALSE)
             /\ \E old \in tx[t].before :
                  /\ old.id = patch.id
                  /\ old.comment = Some("c1")
                  /\ old.isUrgent = Some(TRUE)
                  /\ old.name # patch.name
             /\ \E new \in db : new.id = patch.id /\ new.comment = Some("c1")

Answered == pull.pc = "done" /\ Val(pull.response).status = "ok"

\* The migrations of the model whose from is a number below 2.
NumberBelowTwo ==
    { FromOne, FromOneSpaced, FromOneWithTables,
      Descriptor(<<"0">>), Descriptor(<<"-", "1">>), Descriptor(<<"1", ".", "5">>) }

\* The inputs of the model that ask for the full resync: a schema version of
\* 2 or more with a migration whose from is below 2.
Overrides(input) ==
    input.schemaVersion >= 2 /\ \E m \in NumberBelowTwo : input.migration = Some(m)

\* C8: after one successful push into the empty store whose created list
\* holds N tasks with distinct ids, a pull with lastPulledAt = null and no
\* migration returns those N records as created and nothing as updated.
RoundTrip ==
    ( /\ Answered
      /\ pull.input.lastPulledAt = None
      /\ pull.input.migration = None
      /\ IsSome(pull.first)
      /\ Cardinality(PatchIds(Val(pull.first).created)) = Len(Val(pull.first).created) )
    => /\ Val(pull.response).updated = {}
       /\ Ids(Val(pull.response).created) = PatchIds(Val(pull.first).created)
       /\ Cardinality(Val(pull.response).created) = Len(Val(pull.first).created)
       /\ (Val(pull.first).updated = << >>
             => Val(pull.response).created = SeqToSet(Val(pull.first).created))

RoundTripWitness ==
    /\ Answered
    /\ pull.input.lastPulledAt = None
    /\ pull.input.migration = None
    /\ IsSome(pull.first)
    /\ Len(Val(pull.first).created) = MaxLen
    /\ Cardinality(Val(pull.response).created) = MaxLen

\* The pull was sent the timestamp of the response before it, and no push
\* committed since that response.
RepeatsQuietly ==
    /\ Answered
    /\ IsSome(pull.input.lastPulledAt)
    /\ pull.follows
    /\ pull.quiet
    /\ ~Overrides(pull.input)

\* C9: a pull sent the timestamp t1 of the pull before it, with no push
\* committed in between and no migration override, returns no created and no
\* updated record.
WatermarkMonotonic ==
    RepeatsQuietly =>
      /\ Val(pull.response).created = {}
      /\ Val(pull.response).updated = {}

WatermarkMonotonicWitness ==
    /\ RepeatsQuietly
    /\ db # {}
    /\ \E r \in db : r.serverUpdatedAt = Val(pull.input.lastPulledAt)

\* The steps of a pull: the created query, the updated query, the migration
\* check, the query of the override, the response.
CreatedQuery == pull.pc \in {"idle", "done"} /\ pull'.pc = "updated"
UpdatedQuery == pull.pc = "updated" /\ pull'.pc = "migration"
MigrationCheck == pull.pc = "migration" /\ pull'.pc # "migration"
OverrideQuery == pull.pc = "all" /\ pull'.pc = "return"
Responds ==
    /\ pull.pc \in {"migration", "return"}
    /\ pull'.pc = "done"
    /\ Val(pull'.response).status = "ok"

\* C10: the created query returns the records created since the watermark,
\* the updated query the records updated and not created since the
\* watermark; with a schema version >= 2 and a migration whose from is a
\* number < 2 one more query returns every stored record as the updated
\* list, and with every other input the pull responds with the list of the
\* updated query; the response carries the created list of the created query
\* and the updated list of the last of the other queries.
MigrationFullResync ==
    [][ LET w == IF pull'.input.lastPulledAt \in {None, Some(0)}
                 THEN 1 ELSE Val(pull'.input.lastPulledAt)
        IN  /\ CreatedQuery =>
                 pull'.createdTasks = { x \in db : x.serverCreatedAt > w }
            /\ UpdatedQuery =>
                 pull'.updatedTasks = { x \in db : /\ x.serverUpdatedAt > w
                                                   /\ x.serverCreatedAt <= w }
            /\ MigrationCheck =>
                 IF Overrides(pull.input) THEN pull'.pc = "all" ELSE Responds
            /\ OverrideQuery => pull'.updatedTasks = db
            /\ ~CreatedQuery => pull'.createdTasks = pull.createdTasks
            /\ ~(CreatedQuery \/ UpdatedQuery \/ OverrideQuery) =>
                 pull'.updatedTasks = pull.updatedTasks
            /\ Responds =>
                 /\ Val(pull'.response).created = { ToWire(r) : r \in pull.createdTasks }
                 /\ Val(pull'.response).updated = { ToWire(r) : r \in pull.updatedTasks }
      ]_vars

\* The rows the push in slot 1 wrote, when no push ever ran beside it: the
\* rows committed now that were not committed when it started.
WroteAlone ==
    IF Succeeded(1) /\ tx[2].pc = "idle" THEN db \ tx[1].before ELSE {}

\* The rows a pull with this input returns when all its queries see `store`.
Matching(store, input) ==
    PullLists(store, input).createdTasks \cup PullLists(store, input).updatedTasks

\* C11: a pull response that holds one row as a push wrote it holds every row
\* that push wrote and that matches the pull's watermark: the response shows
\* all of the push or none of it.
AtomicVisibility ==
    Answered =>
      LET got == pull.createdTasks \cup pull.updatedTasks
      IN  got \cap WroteAlone # {} =>
            \A q \in WroteAlone : q \in Matching(db, pull.input) => q \in got

\* The fields of a record the sync protocol passes through.
Domain(r) ==
    [ name |-> r.name, icon |-> r.icon, isDone |-> r.isDone,
      isUrgent |-> r.isUrgent, comment |-> r.comment ]

\* C12: a push that sends again the change set of the push before it, which
\* succeeded, succeeds as well and leaves the same ids in the store, every
\* record with the same domain fields and the same serverCreatedAt.
RetrySafe ==
    \A t \in TxIds :
      (Finished(t) /\ tx[t].retry) =>
        /\ tx[t].outcome = Some(Ok)
        /\ Ids(db) = Ids(tx[t].before)
        /\ \A r \in db :
             \E old \in tx[t].before :
               /\ old.id = r.id
               /\ Domain(old) = Domain(r)
               /\ old.serverCreatedAt = r.serverCreatedAt

\* C13: no step removes an id from the store, whatever the deleted list of a
\* push holds, and every pull response has an empty deleted list.
NoDeletion ==
    [][ /\ Ids(db) \subseteq Ids(db')
        /\ pull'.pc = "done" => Val(pull'.response).deleted = << >> ]_vars

\* A push that succeeded with the id of a stored record in its deleted list.
NoDeletionWitness ==
    /\ Succeeded(1)
    /\ \E i \in 1..Len(Entries(tx[1].changes.deleted)) :
         Entries(tx[1].changes.deleted)[i] \in Ids(tx[1].before) \cap Ids(db)

\* C14: no push issues a batch insert holding an id that is in the store, or
\* twice in the batch, when the insert runs: no push ends on the store's
\* unique-key error.
NeverDuplicateInsert ==
    \A t \in TxIds :
      Finished(t) => Val(tx[t].outcome).cause # "unique"

\* The stored records whose serverCreatedAt is the watermark of the pull.
AtBoundary == { r \in db : r.serverCreatedAt = pull.safeLastPulledAt }

\* C15: a record whose serverCreatedAt equals the watermark of the pull is in
\* the created list of the response and not in its updated list.
BoundaryCreatedOnly ==
    Answered =>
      \A r \in AtBoundary :
        /\ r.id \in Ids(Val(pull.response).created)
        /\ r.id \notin Ids(Val(pull.response).updated)

\* C15, amended: a record whose serverCreatedAt equals the watermark of the
\* pull is not returned by the created query; the updated query returns it
\* exactly when its serverUpdatedAt is past the watermark, and the query of
\* the migration override returns it; no record stored with that
\* serverCreatedAt has its id in the created list of the response.
BoundaryUpdatedOnly ==
    [][ LET w == pull'.safeLastPulledAt
        IN  /\ CreatedQuery =>
                 \A r \in db : r.serverCreatedAt = w => r \notin pull'.createdTasks
            /\ UpdatedQuery =>
                 \A r \in db : r.serverCreatedAt = w =>
                   (r \in pull'.updatedTasks <=> r.serverUpdatedAt > w)
            /\ OverrideQuery =>
                 \A r \in db : r.serverCreatedAt = w => r \in pull'.updatedTasks
            /\ Responds =>
                 \A r \in db' : r.serverCreatedAt = w =>
                   r.id \notin Ids(Val(pull'.response).created)
      ]_vars

\* A pull without override whose watermark is the serverCreatedAt of a record
\* updated since: the record is returned as updated.
BoundaryUpdatedOnlyWitness ==
    /\ Answered
    /\ ~Overrides(pull.input)
    /\ \E r \in AtBoundary :
         /\ r.serverUpdatedAt > pull.safeLastPulledAt
         /\ ToWire(r) \in Val(pull.response).updated
    /\ \E r \in AtBoundary : r.serverUpdatedAt = pull.safeLastPulledAt

\* The rows of `store` a push stamped with `now`: inserted, and updated.
StampedInsert(store, id, now) ==
    \E r \in store : r.id = id /\ r.serverCreatedAt = now /\ r.serverUpdatedAt = now

StampedUpdate(store, id, now) ==
    \E r \in store : r.id = id /\ r.serverUpdatedAt = now

\* C16: when a push commits, every record it inserted carries serverCreatedAt
\* = serverUpdatedAt = the now it read when it started, and every record it
\* updated carries that same now as serverUpdatedAt, however far the clock
\* moved while it ran.
TransactionWideNow ==
    [][ \A t \in TxIds :
          (tx[t].pc # "done" /\ tx'[t].pc = "done" /\ tx'[t].outcome = Some(Ok)) =>
            /\ \A i \in 1..Len(tx'[t].createdTasks) :
                 StampedInsert(db', tx'[t].createdTasks[i].id, tx'[t].now)
            /\ \A i \in 1..Len(tx'[t].updatedTasks) :
                 StampedUpdate(db', tx'[t].updatedTasks[i].id, tx'[t].now) ]_vars

\* A committed push that inserted one record and updated another, stored
\* before it started, while the clock moved on after it had read now.
TransactionWideNowWitness ==
    \E t \in TxIds :
      /\ Succeeded(t)
      /\ tx[t].now < clock
      /\ \E i \in 1..Len(tx[t].createdTasks) : \E j \in 1..Len(tx[t].updatedTasks) :
           /\ tx[t].createdTasks[i].id # tx[t].updatedTasks[j].id
           /\ StampedInsert(db, tx[t].createdTasks[i].id, tx[t].now)
           /\ tx[t].updatedTasks[j].id \in Ids(tx[t].before)
           /\ StampedUpdate(db, tx[t].updatedTasks[j].id, tx[t].now)

\* The places of id x in a list of wire tasks.
Places(list, x) == { i \in 1..Len(list) : list[i].id = x }

\* The push sends x, which the store lacks when it starts, once as created
\* and at least once as updated.
CreatedAndUpdated(t, x) ==
    /\ x \notin Ids(tx[t].before)
    /\ Cardinality(Places(Entries(tx[t].changes.created), x)) = 1
    /\ Places(Entries(tx[t].changes.updated), x) # {}

\* C17: a push, with no push beside it, whose created list holds a new id x
\* and whose updated list holds x too does not fail on x, and succeeds when it
\* holds nothing else; when it succeeds the store holds one record x stamped
\* serverCreatedAt = serverUpdatedAt = now, with the name, icon and done flag
\* of the updated entry and each optional field of the updated entry that is
\* present.
CreatesBeforeUpdates ==
    \A t \in TxIds : \A x \in TaskIds :
      (Finished(t) /\ NoneBeside(t) /\ CreatedAndUpdated(t, x)) =>
        LET created == Entries(tx[t].changes.created)
            updated == Entries(tx[t].changes.updated)
        IN  /\ x \notin Val(tx[t].outcome).ids
            /\ (Len(created) = 1 /\ Len(updated) = 1) => Succeeded(t)
            /\ Succeeded(t) =>
                 /\ Cardinality(RowsOf(x)) = 1
                 /\ \A r \in RowsOf(x) :
                      /\ r.serverCreatedAt = tx[t].now
                      /\ r.serverUpdatedAt = tx[t].now
                      /\ \A j \in Places(updated, x) :
                           Places(updated, x) = {j} =>
                             /\ r.name = updated[j].name
                             /\ r.icon = updated[j].icon
                             /\ r.isDone = updated[j].is_done
                             /\ IsSome(updated[j].is_urgent)
                                  => r.isUrgent = updated[j].is_urgent
                             /\ IsSome(updated[j].comment)
                                  => r.comment = updated[j].comment

\* A push of created [x] and updated [x] into a store without x succeeded
\* and left x with the updated entry's name.
CreatesBeforeUpdatesWitness ==
    \E t \in TxIds : \E x \in TaskIds :
      /\ Succeeded(t)
      /\ NoneBeside(t)
      /\ CreatedAndUpdated(t, x)
      /\ Len(Entries(tx[t].changes.created)) = 1
      /\ Len(Entries(tx[t].changes.updated)) = 1
      /\ \E r \in db : r.id = x /\ r.name = "n2" /\ r.comment = Some("c1")

\* The ids a push names in its created and updated lists.
Touched(t) ==
    PatchIds(Entries(tx[t].changes.created)) \cup PatchIds(Entries(tx[t].changes.updated))

\* Both slots hold a finished push; the one in slot 2 started next after the
\* one in slot 1, while that one ran, and their change sets name no id in
\* common.
RanTogetherApart ==
    /\ Finished(1) /\ Finished(2)
    /\ tx[2].no = tx[1].no + 1
    /\ Touched(1) \cap Touched(2) = {}

\* What the push of slot t does when it runs alone on the rows committed when
\* it started, with the now it read, in some order of its update queries.
Alone(t) ==
    { PushResult(tx[t].before, tx[t].changes, tx[t].now, order) :
        order \in Orders(Len(StagedLists(tx[t].before, tx[t].changes, tx[t].now).updatedTasks)) }

\* C18: two pushes run together on disjoint ids each end as they end alone
\* (so both commit when each commits alone), and every record one of them
\* names is stored as that push leaves it alone.
IndependentPushes ==
    RanTogetherApart =>
      \A t \in TxIds :
        \E res \in Alone(t) :
          /\ tx[t].outcome = Some(res.outcome)
          /\ \A x \in Touched(t) :
               RowsOf(x) = { r \in res.db : r.id = x }

\* Two pushes that ran together, read different values of now and committed,
\* one of them a create and an update of one id, the other a create of the
\* other id.
IndependentPushesWitness ==
    /\ RanTogetherApart
    /\ Succeeded(1) /\ Succeeded(2)
    /\ tx[1].now # tx[2].now
    /\ Touched(1) # {} /\ Touched(2) # {}
    /\ \E t \in TxIds : Len(tx[t].updatedTasks) > 0
    /\ Cardinality(db) = 2

\* C19: no step lowers the serverUpdatedAt of a stored record.
ServerUpdatedAtNeverDecreases ==
    [][ \A r \in db : \A q \in db' :
          q.id = r.id => q.serverUpdatedAt >= r.serverUpdatedAt ]_vars

====
